---- MODULE Spec2Model ----
(***************************************************************************)
(* Model of the retrieval core of the AI-tutoring application:             *)
(*   - VectorSearchTool.similarity_search (tools/vector_search_tool.py)    *)
(*   - EmbeddingTool.create_embedding / _split_text_by_tokens /            *)
(*     chunk_and_embed (tools/embedding_tool.py)                           *)
(*   - the Knowledge Base -> Web Search -> LLM cascade                     *)
(*     smart_search_and_answer (agents.py) with                            *)
(*     search_web_with_evaluation / generate_llm_response_for_query        *)
(*     (tools/web_search_tool.py)                                          *)
(*                                                                         *)
(* Floats are modelled exactly: a similarity score is an integer number of *)
(* hundredths (0.7 is 70), and a vector is a record [c, d] standing for    *)
(* the components c[i] / d.  The vectors used have integer magnitudes, so  *)
(* the square roots and the scores are exact.                              *)
(***************************************************************************)
EXTENDS Integers, Sequences, FiniteSets, TLC

VARIABLES
    corpus,      \* contents of the document_embeddings collection, in cursor order
    sreq,        \* arguments of the last similarity_search call
    sres,        \* value returned by the last similarity_search call
    pc,          \* position of smart_search_and_answer
    stages,      \* cascade stages entered so far, in order
    kb,          \* what the KNOWLEDGE_BASE stage saw
    web,         \* what the WEB_SEARCH stage saw
    llm,         \* what the LLM_FALLBACK stage saw
    response,    \* value returned by smart_search_and_answer
    ck,          \* locals of the running _split_text_by_tokens call
    usage,       \* EmbeddingTool.usage_stats
    provider_calls,  \* calls of client.embeddings.create made so far
    emb,         \* the last direct create_embedding call and its result
    ce,          \* locals and result of the running chunk_and_embed call
    sim,         \* the last application of a similarity function
    ssim,        \* the last SemanticDocumentManager.search_similar call
    pf,          \* locals and result of the running process_file_content call
    bt,          \* locals and result of the running create_embeddings_batch call
    ui           \* st.session_state of the chat UI

vars == <<corpus, sreq, sres, pc, stages, kb, web, llm, response, ck,
          usage, provider_calls, emb, ce, sim, ssim, pf, bt, ui>>

searchVars == <<sreq, sres>>
cascadeVars == <<pc, stages, kb, web, llm, response>>
chunkVars == <<ck>>
embedVars == <<usage, provider_calls, emb, ce>>
appVars == <<sim, ssim, pf, bt, ui>>
retrievalVars == <<sreq, sres, pc, stages, kb, web, llm, response, ck, emb, ce>>

----------------------------------------------------------------------------
(* Bounds *)

MaxDocs == 3
MaxKBDocs == 2
MaxTextLen == 7
MaxChunkTokens == 3
MaxEmbedTextLen == 5
MaxRequests == 2
MaxFiles == 2
MaxSids == 4
MaxFileChunks == 3
MaxCharTextLen == 6
MaxChars == 4
MaxCharWindows == 4
MaxBatchTexts == 3

----------------------------------------------------------------------------
(* Program constants *)

default_limit == 10
min_similarity_threshold == 50
model_max_tokens == 8192
kb_limit == 3
kb_similarity_threshold == 40
kb_acceptance == 70
web_quality_min == 6
token_buffer == 100
chars_per_token == 4
punctuation_lookback == 200
position_prefix == 50
\* Token counts are kept in tenths of a token: _count_tokens returns
\* len(encode(text)) or, without a tokenizer, len(text.split()) * 1.3.
TenthsPerToken == 10
fallback_tenths_per_word == 13

----------------------------------------------------------------------------
(* Python values *)

\* None is the empty tuple, a supplied argument x is <<x>>.
None == <<>>
Some(x) == <<x>>

\* Python's `x or d` on an optional number: None and 0 are both falsy.
OrDefault(opt, d) == IF opt = None \/ opt[1] = 0 THEN d ELSE opt[1]

Min(a, b) == IF a <= b THEN a ELSE b
Max(a, b) == IF a >= b THEN a ELSE b

\* s[:n] for n >= 0
Take(s, n) == SubSeq(s, 1, Min(n, Len(s)))

----------------------------------------------------------------------------
(* Vectors and cosine similarity *)

Vec(c, d) == [c |-> c, d |-> d]

RECURSIVE SumProd(_, _, _)
SumProd(a, b, i) == IF i = 0 THEN 0 ELSE a[i] * b[i] + SumProd(a, b, i - 1)

\* math.sqrt, exact on the perfect squares the model uses
ISqrt(n) == CHOOSE r \in 0..n : r * r <= n /\ (r + 1) * (r + 1) > n

\* numerator of the magnitude of v (the magnitude is MagNum(v) / v.d)
MagNum(v) == ISqrt(SumProd(v.c, v.c, Len(v.c)))

\* VectorSearchTool._calculate_cosine_similarity, in hundredths:
\* dot_product = dot / (d1 d2), magnitude_k = m_k / d_k,
\* similarity = dot / (m1 m2), result max(0, min(1, (similarity + 1) / 2))
CalculateCosineSimilarityRescalesZero(v1, v2) ==
    IF Len(v1.c) # Len(v2.c) THEN 0
    ELSE LET dot == SumProd(v1.c, v2.c, Len(v1.c))
             m1 == MagNum(v1)
             m2 == MagNum(v2)
         IN IF m1 = 0 \/ m2 = 0 THEN 50
            ELSE Max(0, Min(100, ((dot + m1 * m2) * 100) \div (2 * m1 * m2)))

CalculateCosineSimilarity(v1, v2) ==
    IF Len(v1.c) # Len(v2.c) THEN 0
    ELSE LET dot == SumProd(v1.c, v2.c, Len(v1.c))
             m1 == MagNum(v1)
             m2 == MagNum(v2)
         IN IF m1 = 0 \/ m2 = 0 THEN 0
            ELSE Max(0, Min(100, ((dot + m1 * m2) * 100) \div (2 * m1 * m2)))

----------------------------------------------------------------------------
(* EmbeddingTool.create_embedding *)

\* A text is given by the number of tokens of its cleaned form (0: the text
\* is empty after cleaning); reply is what the embedding provider answers
\* when it is called: [ok |-> FALSE] for a network/auth/rate-limit error, or
\* [ok |-> TRUE, vec |-> raw components].
ProviderError == [ok |-> FALSE, vec |-> <<>>]
ProviderVec(c) == [ok |-> TRUE, vec |-> c]

Failure(msg) == [success |-> FALSE, error |-> msg, embedding |-> Vec(<<>>, 1)]

\* normalize=True: every component divided by the magnitude when it is > 0
Normalize(c) ==
    LET m == ISqrt(SumProd(c, c, Len(c)))
    IN IF m > 0 THEN Vec(c, m) ELSE Vec(c, 1)

CreateEmbedding(tokens, reply) ==
    IF tokens = 0 THEN Failure("empty_text")
    ELSE IF tokens > model_max_tokens THEN Failure("text_too_long")
    ELSE IF ~reply.ok THEN Failure("provider_error")
    ELSE [success |-> TRUE, error |-> "", embedding |-> Normalize(reply.vec)]

\* lines 215-229: the call reaches client.embeddings.create when the text is
\* neither empty nor over the ceiling
ReachesProvider(tokens) == tokens # 0 /\ tokens <= model_max_tokens

\* the number of times one create_embedding call invokes the provider
ProviderCallsRetrying(tokens, reply) ==
    IF ~ReachesProvider(tokens) THEN 0 ELSE IF reply.ok THEN 1 ELSE 2

ProviderCalls(tokens, reply) == IF ReachesProvider(tokens) THEN 1 ELSE 0

\* lines 247-250: the counters move only on the path that returns success
UpdateUsageAlways(u, token_count, result) ==
    [total_tokens |-> u.total_tokens + token_count,
     total_requests |-> u.total_requests + 1,
     total_cost |-> u.total_cost + token_count]

UpdateUsage(u, token_count, result) ==
    IF result.success
    THEN [total_tokens |-> u.total_tokens + token_count,
          total_requests |-> u.total_requests + 1,
          total_cost |-> u.total_cost + token_count]
    ELSE u

----------------------------------------------------------------------------
(* The document_embeddings collection *)

\* A stored document: its position in the cursor is its identity.  It may
\* lack the "embedding" field (similarity_search skips it) and it may lack
\* the "content" field (the readers of the collection in check_db.py and
\* test_pipeline.py use doc.get("content", "")).
NormalizedVecs == {Vec(<<1, 0>>, 1), Vec(<<3, 4>>, 5), Vec(<<-3, 4>>, 5)}
StoredVecs == NormalizedVecs \cup {Vec(<<0, 0>>, 1)}

Docs ==
    [embedding : {Some(v) : v \in StoredVecs}, has_content : BOOLEAN]
        \cup [embedding : {None}, has_content : {TRUE}]

Corpora == UNION {[1..n -> Docs] : n \in 0..MaxDocs}
KBCorpora == UNION {[1..n -> Docs] : n \in 0..MaxKBDocs}

----------------------------------------------------------------------------
(* VectorSearchTool.similarity_search *)

\* line 221: the threshold gate
PassesThresholdNoGate(similarity, similarity_threshold) == TRUE

PassesThreshold(similarity, similarity_threshold) ==
    similarity >= similarity_threshold

\* lines 209-225: the scan of the cursor; documents without an embedding are
\* skipped, the others are scored and kept when they pass the gate
RECURSIVE ScanFrom(_, _, _, _)
ScanFrom(docs, i, query_embedding, similarity_threshold) ==
    IF i > Len(docs) THEN <<>>
    ELSE LET doc == docs[i]
             rest == ScanFrom(docs, i + 1, query_embedding, similarity_threshold)
         IN IF doc.embedding = None THEN rest
            ELSE LET similarity ==
                         CalculateCosineSimilarity(query_embedding, doc.embedding[1])
                 IN IF PassesThreshold(similarity, similarity_threshold)
                    THEN <<[id |-> i, has_content |-> doc.has_content,
                            similarity_score |-> similarity]>> \o rest
                    ELSE rest

\* list.sort(key=similarity_score, reverse=True) is stable: an element goes
\* after every element already placed whose score is >= its own
InsertDescTiesReversed(sorted, x) ==
    LET before == {j \in 1..Len(sorted) :
                      sorted[j].similarity_score > x.similarity_score}
        n == Cardinality(before)
    IN SubSeq(sorted, 1, n) \o <<x>> \o SubSeq(sorted, n + 1, Len(sorted))

InsertDesc(sorted, x) ==
    LET before == {j \in 1..Len(sorted) :
                      sorted[j].similarity_score >= x.similarity_score}
        n == Cardinality(before)
    IN SubSeq(sorted, 1, n) \o <<x>> \o SubSeq(sorted, n + 1, Len(sorted))

RECURSIVE SortDescFrom(_, _, _)
SortDescFrom(results, i, sorted) ==
    IF i > Len(results) THEN sorted
    ELSE SortDescFrom(results, i + 1, InsertDesc(sorted, results[i]))

SortDescending(results) == SortDescFrom(results, 1, <<>>)

\* A failure carries "error" and no "results" key; corpus_read tells whether
\* collection.find was issued during the call.
SearchFailure(msg) ==
    [success |-> FALSE, error |-> msg, has_results |-> FALSE,
     results |-> <<>>, limit |-> 0, similarity_threshold |-> 0,
     corpus_read |-> FALSE]

\* lines 189-193: the query could not be embedded
QueryNotEmbeddedAfterFind ==
    [SearchFailure("query_embedding") EXCEPT !.corpus_read = TRUE]

QueryNotEmbedded == SearchFailure("query_embedding")

\* lines 205-206: collection.find(mongo_filter) hands out the documents (the
\* model's corpus is what the cursor yields under the caller's filters) and
\* leaves the collection as it is
CollectionFindAndDrop(docs) == [cursor |-> docs, collection |-> <<>>]

CollectionFind(docs) == [cursor |-> docs, collection |-> docs]

\* lines 196-199: the defaults
EffectiveLimit(limit) == OrDefault(limit, default_limit)

EffectiveThresholdZero(similarity_threshold) == 0

EffectiveThreshold(similarity_threshold) ==
    OrDefault(similarity_threshold, min_similarity_threshold)

\* lines 231: results[:limit]
Truncate(results, limit) == Take(results, limit)

\* tokens, reply: the query text and the provider's answer to it;
\* db_up = FALSE: reading the collection raises (caught at line 244)
SimilaritySearch(tokens, reply, limit, similarity_threshold, docs, db_up) ==
    LET query_result == CreateEmbedding(tokens, reply)
    IN IF ~query_result.success
       THEN QueryNotEmbedded
       ELSE IF ~db_up
       THEN [SearchFailure("exception") EXCEPT !.corpus_read = TRUE]
       ELSE LET lim == EffectiveLimit(limit)
                thr == EffectiveThreshold(similarity_threshold)
                cursor == CollectionFind(docs).cursor
                results == SortDescending(
                               ScanFrom(cursor, 1, query_result.embedding, thr))
            IN [success |-> TRUE, error |-> "", has_results |-> TRUE,
                results |-> Truncate(results, lim),
                limit |-> lim, similarity_threshold |-> thr,
                corpus_read |-> TRUE]

\* the collection after a similarity_search call that returned `result`
CollectionAfterSearch(docs, result, db_up) ==
    IF result.corpus_read /\ db_up THEN CollectionFind(docs).collection
    ELSE docs

----------------------------------------------------------------------------
(* Callers of similarity_search *)

QueryTexts == {0, 5, model_max_tokens + 1}
QueryReplies == {ProviderError, ProviderVec(<<1, 0>>), ProviderVec(<<3, 4>>)}
Limits == {None, Some(0), Some(1), Some(2)}
Thresholds == {None, Some(0), Some(80)}

NoRequest ==
    [tokens |-> 0, reply |-> ProviderError, limit |-> None,
     similarity_threshold |-> None, db_up |-> TRUE, called |-> FALSE]

CascadeIdle ==
    /\ pc = "idle"
    /\ stages = <<>>
    /\ kb = None
    /\ web = None
    /\ llm = None
    /\ response = None

ChunkerIdle ==
    ck = [pc |-> "idle", text |-> <<>>, max_tokens |-> 0, overlap_tokens |-> 0,
          tokenizer |-> "ok", tokens |-> <<>>, max_chars |-> 0,
          overlap_chars |-> 0, start |-> 0, chunks |-> <<>>,
          windows |-> <<>>]

NoUsage == [total_tokens |-> 0, total_requests |-> 0, total_cost |-> 0]

NoEmbedding ==
    [n |-> 0, tokens |-> 0, reply |-> ProviderError,
     result |-> Failure("")]

ChunkAndEmbedIdle ==
    [pc |-> "idle", i |-> 0, chunk_embeddings |-> <<>>, failed |-> {},
     calls |-> <<>>, success |-> FALSE, error |-> ""]

EmbedderIdle ==
    /\ usage = NoUsage
    /\ provider_calls = 0
    /\ emb = NoEmbedding
    /\ ce = ChunkAndEmbedIdle

NoSimilarity ==
    [fn |-> "none", v1 |-> <<>>, v2 |-> <<>>, value |-> 0]

NoSearchSimilar ==
    [called |-> FALSE, reply |-> ProviderError, top_k |-> 0, results |-> <<>>]

ProcessFileIdle ==
    [pc |-> "idle", chunks |-> 0, k |-> 0, before |-> <<>>, success |-> FALSE]

BatchIdle ==
    [pc |-> "idle", texts |-> <<>>, batch_size |-> 1, i |-> 0,
     embeddings |-> <<>>, failed_indices |-> <<>>, total_tokens |-> 0,
     success |-> FALSE]

\* file_key values (name and size) of the files a user uploads
Keys == 1..MaxFiles

\* lines 109-120 of UIChat.py: the first run creates one empty session and
\* makes it current; no file has been handled.  sessions lists the entries
\* of the dict in insertion order, a uuid is a number never used before,
\* processing_files[k] = "absent" stands for a key not in the dict, processed
\* counts the calls of process_uploaded_file, and busy is the key whose
\* call is running (0: none).

UIStart ==
    [sessions |-> <<[sid |-> 1, named |-> FALSE, has_messages |-> FALSE]>>,
     current_session |-> 1,
     next_sid |-> 2,
     show_uploader |-> FALSE,
     processing_files |-> [k \in Keys |-> "absent"],
     processed |-> [k \in Keys |-> 0],
     busy |-> 0]

AppIdle ==
    /\ sim = NoSimilarity
    /\ ssim = NoSearchSimilar
    /\ pf = ProcessFileIdle
    /\ bt = BatchIdle
    /\ ui = UIStart

SearchInit ==
    /\ corpus \in Corpora
    /\ sreq = NoRequest
    /\ sres = SearchFailure("")
    /\ CascadeIdle
    /\ ChunkerIdle
    /\ EmbedderIdle
    /\ AppIdle

\* The search keeps no state between calls (the usage counters apart), so a
\* behaviour holds one call on the corpus it starts with.
SimilaritySearchCall ==
    /\ ~sreq.called
    /\ pc = "idle"
    /\ ck.pc = "idle"
    /\ ce.pc = "idle"
    /\ sim.fn = "none"
    /\ ~ssim.called
    /\ \E tokens \in QueryTexts, reply \in QueryReplies, limit \in Limits,
          similarity_threshold \in Thresholds, db_up \in BOOLEAN :
           /\ sreq' = [tokens |-> tokens, reply |-> reply, limit |-> limit,
                       similarity_threshold |-> similarity_threshold,
                       db_up |-> db_up, called |-> TRUE]
           /\ sres' = SimilaritySearch(tokens, reply, limit,
                                       similarity_threshold, corpus, db_up)
           /\ corpus' = CollectionAfterSearch(corpus, sres', db_up)
           /\ usage' = UpdateUsage(usage, tokens * TenthsPerToken,
                                   CreateEmbedding(tokens, reply))
           /\ provider_calls' = provider_calls + ProviderCalls(tokens, reply)
    /\ UNCHANGED appVars
    /\ UNCHANGED <<cascadeVars, chunkVars, emb, ce>>

SearchNext == SimilaritySearchCall

SearchSpec == SearchInit /\ [][SearchNext]_vars

----------------------------------------------------------------------------
(* tools/web_search_tool.py *)

\* What WebSearchTool.search_with_llm_fallback returns:
\*   "results"    a non-empty list (DuckDuckGo, or the LLM's JSON answer)
\*   "none"       None: the LLM answered without a JSON object (no return)
\*   "error_item" the one-element list built in its except branch, whose
\*                content is the error message
SearchOutcomes == {"results", "none", "error_item"}

\* What the evaluator LLM answers in evaluate_search_results (its summary is
\* taken to be plain text that does not spell out a status marker):
\*   kind "error"      llm.invoke raised
\*   kind "unparsable" no JSON object in the answer
\*   kind "json"       the JSON object eval_data, returned as it is
EvalData ==
    [recommendation : {"use_search", "llm_response"},
     quality_score : {3, 6, 8},
     has_summary : BOOLEAN]

EvalReply(kind, data) == [kind |-> kind, data |-> data]

NoData ==
    [recommendation |-> "llm_response", quality_score |-> 0,
     has_summary |-> TRUE]

EvalReplies ==
    {EvalReply("error", NoData), EvalReply("unparsable", NoData)}
        \cup {EvalReply("json", d) : d \in EvalData}

EvaluateSearchResults(eval_reply) ==
    IF eval_reply.kind = "error"
    THEN [recommendation |-> "llm_response", quality_score |-> 0,
          has_summary |-> TRUE]
    ELSE IF eval_reply.kind = "unparsable"
    THEN [recommendation |-> "use_search", quality_score |-> 5,
          has_summary |-> TRUE]
    ELSE eval_reply.data

\* line 226: the decision to show the search results
UseSearchScoreOnly(evaluation) == evaluation.quality_score >= web_quality_min

UseSearch(evaluation) ==
    /\ evaluation.recommendation = "use_search"
    /\ evaluation.quality_score >= web_quality_min

\* The text returned by search_web_with_evaluation: the status markers it
\* contains, whether it shows search results, and whether it shows an error
\* message (the except branch, or an error item among the results shown).
WebText(marker, shows_results, shows_error) ==
    [markers |-> {marker}, shows_results |-> shows_results,
     shows_error |-> shows_error]

SearchWebWithEvaluation(search_outcome, eval_reply) ==
    IF search_outcome = "none"
    THEN WebText("llm_response_needed", FALSE, FALSE)
    ELSE LET evaluation == EvaluateSearchResults(eval_reply)
         IN IF ~evaluation.has_summary
            THEN \* evaluation['summary'] raises KeyError in both branches
                 WebText("llm_response_needed", FALSE, TRUE)
            ELSE IF UseSearch(evaluation)
            THEN WebText("search_results_ready", TRUE,
                         search_outcome = "error_item")
            ELSE WebText("llm_response_needed", FALSE, FALSE)

\* generate_llm_response_for_query: the answer, or the apology of the except
\* branch when the LLM call raises
GenerateLLMResponseNoApology(llm_ok) ==
    [answer |-> llm_ok, apology |-> FALSE]

GenerateLLMResponseForQuery(llm_ok) ==
    [answer |-> llm_ok, apology |-> ~llm_ok]

----------------------------------------------------------------------------
(* agents.py: smart_search_and_answer *)

\* The text returned to the user: where it comes from, the knowledge-base
\* results it lists, and the error messages it contains.
Response(source, results, error_prefix, error_in_results, apology) ==
    [source |-> source, results |-> results, error_prefix |-> error_prefix,
     error_in_results |-> error_in_results, apology |-> apology]

RECURSIVE MaxScore(_, _)
MaxScore(results, i) ==
    IF i = 0 THEN 0
    ELSE Max(results[i].similarity_score, MaxScore(results, i - 1))

\* max(results, key=similarity_score): the first result of maximal score
BestResult(results) ==
    LET best == MaxScore(results, Len(results))
        i == CHOOSE k \in 1..Len(results) :
                 /\ results[k].similarity_score = best
                 /\ \A j \in 1..(k - 1) : results[j].similarity_score # best
    IN results[i]

\* lines 292-298
RelevantKeywords(overlap, best_score) ==
    overlap >= 2 \/ best_score >= kb_acceptance

\* line 302
UseKnowledgeBase(overlap, best_score) ==
    best_score >= kb_acceptance /\ RelevantKeywords(overlap, best_score)

Overlaps == 0..2

\* The outcome of lines 273-320: "return" with the knowledge-base answer,
\* "web" to fall through to step 2, "raise" when doc['content'] is read on a
\* document without that field (KeyError, caught at line 343).
KBOutcome(kb_results, overlap) ==
    IF kb_results.success /\ kb_results.results # <<>>
    THEN LET results == kb_results.results
             best_score == MaxScore(results, Len(results))
             best_result == BestResult(results)
         IN IF ~best_result.has_content THEN "raise"
            ELSE IF UseKnowledgeBase(overlap, best_score)
            THEN IF \E i \in 1..Len(results) : ~results[i].has_content
                 THEN "raise"
                 ELSE "return"
            ELSE "web"
    ELSE "web"

CascadeInit ==
    /\ corpus \in KBCorpora
    /\ sreq = NoRequest
    /\ sres = SearchFailure("")
    /\ CascadeIdle
    /\ ChunkerIdle
    /\ EmbedderIdle
    /\ AppIdle

\* lines 270-320: entry and step 1
KnowledgeBaseStage ==
    /\ pc = "idle"
    /\ ~sreq.called
    /\ ck.pc = "idle"
    /\ \E tokens \in QueryTexts, reply \in QueryReplies, db_up \in BOOLEAN,
          overlap \in Overlaps :
           LET kb_results ==
                   SimilaritySearch(tokens, reply, Some(kb_limit),
                                    Some(kb_similarity_threshold), corpus, db_up)
               outcome == KBOutcome(kb_results, overlap)
           IN /\ kb' = Some([kb_results |-> kb_results, overlap |-> overlap,
                             outcome |-> outcome])
              /\ stages' = Append(stages, "KNOWLEDGE_BASE")
              /\ IF outcome = "return"
                 THEN /\ pc' = "done"
                      /\ response' = Some(Response("kb", kb_results.results,
                                                   FALSE, FALSE, FALSE))
                 ELSE /\ pc' = IF outcome = "raise" THEN "except" ELSE "web"
                      /\ response' = response
              /\ corpus' = CollectionAfterSearch(corpus, kb_results, db_up)
              /\ usage' = UpdateUsage(usage, tokens * TenthsPerToken,
                                      CreateEmbedding(tokens, reply))
              /\ provider_calls' =
                     provider_calls + ProviderCalls(tokens, reply)
    /\ UNCHANGED appVars
    /\ UNCHANGED <<searchVars, chunkVars, emb, ce, web, llm>>

\* lines 322-331 and 338-341: step 2
WebSearchStage ==
    /\ pc = "web"
    /\ \E search_outcome \in SearchOutcomes, eval_reply \in EvalReplies :
           LET web_result == SearchWebWithEvaluation(search_outcome, eval_reply)
           IN /\ web' = Some([search_outcome |-> search_outcome,
                              evaluation |-> EvaluateSearchResults(eval_reply),
                              web_result |-> web_result])
              /\ stages' = Append(stages, "WEB_SEARCH")
              /\ IF "search_results_ready" \in web_result.markers
                 THEN /\ pc' = "done"
                      /\ response' = Some(Response("web", <<>>, FALSE,
                                                   web_result.shows_error, FALSE))
                 ELSE IF "llm_response_needed" \in web_result.markers
                 THEN /\ pc' = "llm"
                      /\ response' = response
                 ELSE /\ pc' = "done"
                      /\ response' = Some(Response("web", <<>>, FALSE,
                                                   web_result.shows_error, FALSE))
    /\ UNCHANGED appVars
    /\ UNCHANGED <<corpus, searchVars, chunkVars, embedVars, kb, llm>>

\* lines 332-337: step 3
LLMFallbackStage ==
    /\ pc = "llm"
    /\ \E llm_ok \in BOOLEAN :
           LET llm_response == GenerateLLMResponseForQuery(llm_ok)
           IN /\ llm' = Some([ok |-> llm_ok, from_handler |-> FALSE])
              /\ response' = Some(Response("llm", <<>>, FALSE, FALSE,
                                           llm_response.apology))
    /\ stages' = Append(stages, "LLM_FALLBACK")
    /\ pc' = "done"
    /\ UNCHANGED appVars
    /\ UNCHANGED <<corpus, searchVars, chunkVars, embedVars, kb, web>>

\* lines 343-350: the handler of an exception raised in steps 1-2
ExceptionHandler ==
    /\ pc = "except"
    /\ \E llm_ok \in BOOLEAN :
           LET llm_response == GenerateLLMResponseForQuery(llm_ok)
           IN /\ llm' = Some([ok |-> llm_ok, from_handler |-> TRUE])
              /\ response' = Some(Response("llm", <<>>, TRUE, FALSE,
                                           llm_response.apology))
    /\ stages' = Append(stages, "LLM_FALLBACK")
    /\ pc' = "done"
    /\ UNCHANGED appVars
    /\ UNCHANGED <<corpus, searchVars, chunkVars, embedVars, kb, web>>

CascadeNext ==
    \/ KnowledgeBaseStage
    \/ WebSearchStage
    \/ LLMFallbackStage
    \/ ExceptionHandler

CascadeSpec == CascadeInit /\ [][CascadeNext]_vars

\* The function runs to its return: every step is taken once it is enabled.
CascadeLive == CascadeSpec /\ WF_vars(CascadeNext)

----------------------------------------------------------------------------
(* EmbeddingTool._split_text_by_tokens and _split_text_by_chars *)

\* A text is a sequence of characters.  The tokenizer is modelled as a
\* greedy one whose tokens are two characters long (the last one may be
\* shorter): encode cuts the text into tokens, decode joins them again.
Alphabet == {"a", ".", " "}
Punctuation == {".", "!", "?", ";", ":", "\n"}
Whitespace == {" ", "\n"}

Encode(text) ==
    [k \in 1..((Len(text) + 1) \div 2) |->
        SubSeq(text, 2 * k - 1, Min(2 * k, Len(text)))]

RECURSIVE Decode(_)
Decode(tokens) ==
    IF tokens = <<>> THEN <<>> ELSE Head(tokens) \o Decode(Tail(tokens))

\* s[a:b] with Python's treatment of negative and out-of-range bounds
PyBound(n, len) == IF n < 0 THEN Max(0, n + len) ELSE Min(n, len)
PySlice(s, a, b) == SubSeq(s, PyBound(a, Len(s)) + 1, PyBound(b, Len(s)))

\* s[i]: a negative index counts from the end; outside -len..len-1 it raises
PyIndexValid(s, i) == i >= -Len(s) /\ i < Len(s)
PyIndex(s, i) == IF i < 0 THEN s[i + Len(s) + 1] ELSE s[i + 1]

\* str.strip()
RECURSIVE LStrip(_)
LStrip(s) ==
    IF s # <<>> /\ Head(s) \in Whitespace THEN LStrip(Tail(s)) ELSE s

RECURSIVE RStrip(_)
RStrip(s) ==
    IF s # <<>> /\ s[Len(s)] \in Whitespace
    THEN RStrip(SubSeq(s, 1, Len(s) - 1))
    ELSE s

Strip(s) == LStrip(RStrip(s))

\* The texts _split_text_by_tokens is called with are outputs of _clean_text
\* (chunk_and_embed, lines 367-378): not empty, no whitespace at either end,
\* no two whitespace characters in a row.
IsCleanText(t) ==
    /\ t # <<>>
    /\ t[1] # " " /\ t[Len(t)] # " "
    /\ \A i \in 1..(Len(t) - 1) : ~(t[i] = " " /\ t[i + 1] = " ")

CleanTexts ==
    {t \in UNION {[1..n -> Alphabet] : n \in 1..MaxTextLen} : IsCleanText(t)}

\* max_tokens > overlap_tokens >= 0; None takes the model's ceiling less 100
ChunkSizes ==
    {<<None, 0>>}
        \cup {<<Some(mo[1]), mo[2]>> :
                  mo \in {x \in (1..MaxChunkTokens) \X (0..MaxChunkTokens) :
                             x[1] > x[2]}}

\* "ok": tiktoken loaded; "none": self.tokenizer is None (line 133);
\* "raises": encode raises on this text (line 159)
Tokenizers == {"ok", "none", "raises"}

\* line 155: where the next window starts
NextStartPastEnd(end, overlap_tokens) == end + 1 - overlap_tokens

NextStart(end, overlap_tokens) == end - overlap_tokens

\* line 147: the end of the window that starts at `start`
WindowEndOneMore(start, max_tokens) == start + max_tokens + 1

WindowEnd(start, max_tokens) == start + max_tokens

\* lines 176-180 of _split_text_by_chars: a text that fits is returned whole
EnterSplitByChars(c, text, max_chars, overlap_chars) ==
    IF Len(text) <= max_chars
    THEN [c EXCEPT !.pc = "done", !.chunks = <<text>>,
                   !.max_chars = max_chars, !.overlap_chars = overlap_chars]
    ELSE [c EXCEPT !.pc = "chars", !.chunks = <<>>, !.start = 0,
                   !.max_chars = max_chars, !.overlap_chars = overlap_chars]

\* lines 130-144: up to the first test of the while loop
SplitTextByTokens(c, text, max_tokens, overlap_tokens, tokenizer) ==
    LET m == IF max_tokens = None
             THEN model_max_tokens - token_buffer
             ELSE max_tokens[1]
        c1 == [c EXCEPT !.text = text, !.max_tokens = m,
                        !.overlap_tokens = overlap_tokens,
                        !.tokenizer = tokenizer]
    IN IF tokenizer # "ok"
       THEN EnterSplitByChars(c1, text, m * chars_per_token,
                              overlap_tokens * chars_per_token)
       ELSE LET tokens == Encode(text)
            IN IF Len(tokens) <= m
               THEN [c1 EXCEPT !.pc = "done", !.tokens = tokens,
                               !.chunks = <<text>>,
                               !.windows = <<<<0, Len(tokens)>>>>]
               ELSE [c1 EXCEPT !.pc = "tokens", !.tokens = tokens,
                               !.chunks = <<>>, !.start = 0,
                               !.windows = <<>>]

SplitTextByTokensCall ==
    /\ ck.pc = "idle"
    /\ ce.pc = "idle"
    /\ pc = "idle"
    /\ ~sreq.called
    /\ \E text \in CleanTexts, size \in ChunkSizes, tokenizer \in Tokenizers :
           ck' = SplitTextByTokens(ck, text, size[1], size[2], tokenizer)
    /\ UNCHANGED appVars
    /\ UNCHANGED <<corpus, searchVars, cascadeVars, embedVars>>

\* lines 146-157: one iteration of the token window loop, and the return
\* when the loop test fails.  windows keeps, for each chunk, the token
\* positions start..end-1 of tokens[start:end] that it was decoded from.
TokenWindow ==
    /\ ck.pc = "tokens"
    /\ ck.start < Len(ck.tokens)
    /\ LET end == WindowEnd(ck.start, ck.max_tokens)
           chunk_tokens == PySlice(ck.tokens, ck.start, end)
           chunk_text == Decode(chunk_tokens)
           start == NextStart(end, ck.overlap_tokens)
       IN ck' = [ck EXCEPT !.chunks = Append(@, chunk_text),
                           !.windows =
                               Append(@, <<ck.start,
                                           PyBound(end, Len(ck.tokens))>>),
                           !.start = start,
                           !.pc = IF start < Len(ck.tokens)
                                  THEN "tokens" ELSE "done"]
    /\ UNCHANGED appVars
    /\ UNCHANGED <<corpus, searchVars, cascadeVars, embedVars>>

\* lines 186-191: the cut; the scan runs from `end` down to just above the
\* lower bound and stops at the first sentence-ending character.  The result
\* is the new end, or "raise" when text[i] raises IndexError first.
CutPoint(text, start, end, max_chars, overlap_chars) ==
    LET lo == Max(start + max_chars - overlap_chars, end - punctuation_lookback)
        scanned == {i \in (lo + 1)..end : TRUE}
        hits == {i \in scanned :
                    PyIndexValid(text, i) /\ PyIndex(text, i) \in Punctuation}
        invalid == {i \in scanned : ~PyIndexValid(text, i)}
        top(S) == CHOOSE i \in S : \A j \in S : j <= i
    IN IF hits # {} /\ (invalid = {} \/ top(invalid) < top(hits))
       THEN Some(top(hits) + 1)
       ELSE IF invalid # {} THEN None
       ELSE Some(end)

\* lines 182-199: one iteration of the character window loop, and the return
\* when the loop test fails.  windows keeps, for each iteration, the bounds
\* start and end of text[start:end]; a run is followed for MaxCharWindows
\* iterations.
CharWindow ==
    /\ ck.pc = "chars"
    /\ ck.start < Len(ck.text)
    /\ Len(ck.windows) < MaxCharWindows
    /\ LET end0 == ck.start + ck.max_chars
           cut == IF end0 < Len(ck.text)
                  THEN CutPoint(ck.text, ck.start, end0, ck.max_chars,
                                ck.overlap_chars)
                  ELSE Some(end0)
       IN IF cut = None
          THEN ck' = [ck EXCEPT !.pc = "raised"]
          ELSE LET end == cut[1]
                   chunk == Strip(PySlice(ck.text, ck.start, end))
                   start == IF end < Len(ck.text)
                            THEN end - ck.overlap_chars ELSE end
               IN ck' = [ck EXCEPT
                            !.chunks = IF chunk # <<>> THEN Append(@, chunk)
                                       ELSE @,
                            !.windows = Append(@, <<ck.start, end>>),
                            !.start = start,
                            !.pc = IF start < Len(ck.text)
                                   THEN "chars" ELSE "done"]
    /\ UNCHANGED appVars
    /\ UNCHANGED <<corpus, searchVars, cascadeVars, embedVars>>

\* _split_text_by_chars called on its own: any text, max_chars >
\* overlap_chars >= 0
CharTexts == UNION {[1..n -> Alphabet] : n \in 0..MaxCharTextLen}

CharSizes == {x \in (1..MaxChars) \X (0..MaxChars) : x[1] > x[2]}

SplitTextByCharsCall ==
    /\ ck.pc = "idle"
    /\ ce.pc = "idle"
    /\ pc = "idle"
    /\ ~sreq.called
    /\ \E text \in CharTexts, size \in CharSizes :
           ck' = EnterSplitByChars(
                     [ck EXCEPT !.text = text, !.tokenizer = "unused"],
                     text, size[1], size[2])
    /\ UNCHANGED appVars
    /\ UNCHANGED <<corpus, searchVars, cascadeVars, embedVars>>

ChunkInit ==
    /\ corpus = <<>>
    /\ sreq = NoRequest
    /\ sres = SearchFailure("")
    /\ CascadeIdle
    /\ ChunkerIdle
    /\ EmbedderIdle
    /\ AppIdle

ChunkNext ==
    \/ SplitTextByTokensCall
    \/ TokenWindow
    \/ CharWindow

ChunkSpec == ChunkInit /\ [][ChunkNext]_vars

\* The token window loop runs on: an iteration is taken once its test holds.
ChunkLive == ChunkSpec /\ WF_vars(TokenWindow)

CharNext ==
    \/ SplitTextByCharsCall
    \/ CharWindow

CharSpec == ChunkInit /\ [][CharNext]_vars

----------------------------------------------------------------------------
(* EmbeddingTool.create_embedding called directly, and chunk_and_embed *)

\* len(text.split()): the maximal runs of non-whitespace characters
Words(text) ==
    {i \in 1..Len(text) :
        text[i] \notin Whitespace /\ (i = 1 \/ text[i - 1] \in Whitespace)}

\* _count_tokens, in tenths of a token; a tokenizer that is missing or that
\* raises gives the estimate of 1.3 tokens a word
CountTokens(text, tokenizer) ==
    IF tokenizer = "ok" THEN TenthsPerToken * Len(Encode(text))
    ELSE fallback_tenths_per_word * Cardinality(Words(text))

\* the whole number n with (tenths / 10 > m) = (n > m) for every integer m
WholeTokens(tenths) == (tenths + TenthsPerToken - 1) \div TenthsPerToken

\* str.find: the lowest index where sub occurs, or -1
StrFind(text, sub) ==
    LET at == {i \in 0..(Len(text) - Len(sub)) :
                  SubSeq(text, i + 1, i + Len(sub)) = sub}
    IN IF at = {} THEN -1 ELSE CHOOSE i \in at : \A j \in at : i <= j

\* line 400: the recorded position of a chunk
StartPosition(clean_text, chunk) ==
    StrFind(clean_text, Take(chunk, position_prefix))

DirectReplies == {ProviderError, ProviderVec(<<3, 4>>)}

\* create_embedding called by a user of the tool, at most MaxRequests times
CreateEmbeddingCall ==
    /\ ce.pc = "idle"
    /\ ck.pc = "idle"
    /\ pc = "idle"
    /\ ~sreq.called
    /\ emb.n < MaxRequests
    /\ \E tokens \in QueryTexts, reply \in DirectReplies :
           LET result == CreateEmbedding(tokens, reply)
           IN /\ emb' = [n |-> emb.n + 1, tokens |-> tokens, reply |-> reply,
                         result |-> result]
              /\ usage' = UpdateUsage(usage, tokens * TenthsPerToken, result)
              /\ provider_calls' = provider_calls + ProviderCalls(tokens, reply)
    /\ UNCHANGED appVars
    /\ UNCHANGED <<corpus, searchVars, cascadeVars, chunkVars, ce>>

EmbedTexts == {t \in CleanTexts : Len(t) <= MaxEmbedTextLen}

\* lines 365-378 of chunk_and_embed: an empty text fails at once, any other
\* is handed to _split_text_by_tokens.  A behaviour holds either direct
\* create_embedding calls or one chunk_and_embed call, whose own chunks move
\* the counters.
ChunkAndEmbedCall ==
    /\ ce.pc = "idle"
    /\ ck.pc = "idle"
    /\ pc = "idle"
    /\ ~sreq.called
    /\ emb.n = 0
    /\ \E clean_text \in EmbedTexts \cup {<<>>}, size \in ChunkSizes,
          tokenizer \in Tokenizers :
           IF clean_text = <<>>
           THEN /\ ce' = [ce EXCEPT !.pc = "done", !.error = "empty_text"]
                /\ ck' = ck
           ELSE /\ ce' = [ce EXCEPT !.pc = "split"]
                /\ ck' = SplitTextByTokens(
                             ck, clean_text,
                             Some(IF size[1] = None
                                  THEN model_max_tokens - token_buffer
                                  ELSE size[1][1]),
                             size[2], tokenizer)
    /\ UNCHANGED appVars
    /\ UNCHANGED <<corpus, searchVars, cascadeVars, usage, provider_calls, emb>>

\* lines 380-384 and 419-423: the call fails when the chunker raised or
\* returned no chunk
ChunkAndEmbedFailure(c, chunker) ==
    IF chunker.pc = "raised"
    THEN [c EXCEPT !.pc = "done", !.error = "exception"]
    ELSE [c EXCEPT !.pc = "done", !.error = "no_chunks"]

\* lines 406-417: the call succeeds when at least one chunk was embedded
ChunkAndEmbedSuccess(chunk_embeddings, chunks) == Len(chunk_embeddings) > 0

\* lines 380-417: what follows the chunker's return: the failure exits, then
\* one iteration of the loop over the chunks (the next chunk is embedded with
\* create_embedding), and the return after the last one
EmbedChunk ==
    /\ ce.pc = "split"
    /\ ck.pc \in {"done", "raised"}
    /\ IF ck.pc = "raised" \/ ck.chunks = <<>>
       THEN /\ ce' = ChunkAndEmbedFailure(ce, ck)
            /\ UNCHANGED <<usage, provider_calls>>
       ELSE /\ ce.i < Len(ck.chunks)
            /\ \E reply \in DirectReplies :
                   LET chunk == ck.chunks[ce.i + 1]
                       token_count == CountTokens(Strip(chunk), ck.tokenizer)
                       tokens == WholeTokens(token_count)
                       result == CreateEmbedding(tokens, reply)
                       chunk_embeddings ==
                           IF result.success
                           THEN Append(ce.chunk_embeddings,
                                       [chunk_index |-> ce.i,
                                        content |-> chunk,
                                        token_count |-> token_count,
                                        start_position |->
                                            StartPosition(ck.text, chunk)])
                           ELSE ce.chunk_embeddings
                       last == ce.i + 1 = Len(ck.chunks)
                   IN /\ ce' = [ce EXCEPT
                                   !.i = @ + 1,
                                   !.chunk_embeddings = chunk_embeddings,
                                   !.failed = IF result.success THEN @
                                              ELSE @ \cup {ce.i},
                                   !.calls =
                                       Append(@, ProviderCalls(tokens, reply)),
                                   !.pc = IF last THEN "done" ELSE "split",
                                   !.success =
                                       last /\ ChunkAndEmbedSuccess(
                                                   chunk_embeddings, ck.chunks)]
                      /\ usage' = UpdateUsage(usage, token_count, result)
                      /\ provider_calls' =
                             provider_calls + ProviderCalls(tokens, reply)
    /\ UNCHANGED appVars
    /\ UNCHANGED <<corpus, searchVars, cascadeVars, chunkVars, emb>>

EmbedInit ==
    /\ corpus = <<>>
    /\ sreq = NoRequest
    /\ sres = SearchFailure("")
    /\ CascadeIdle
    /\ ChunkerIdle
    /\ EmbedderIdle
    /\ AppIdle

EmbedNext ==
    \/ CreateEmbeddingCall
    \/ SimilaritySearchCall
    \/ ChunkAndEmbedCall
    \/ TokenWindow
    \/ CharWindow
    \/ EmbedChunk

EmbedSpec == EmbedInit /\ [][EmbedNext]_vars

----------------------------------------------------------------------------
(* The three similarity functions and SemanticDocumentManager.search_similar *)

\* EmbeddingTool.calculate_similarity, in hundredths: zip stops at the
\* shorter vector, each magnitude is taken over the whole of its vector, and
\* the cosine is clipped to [0, 1]
CalculateSimilarity(v1, v2) ==
    LET dot == SumProd(v1.c, v2.c, Min(Len(v1.c), Len(v2.c)))
        m1 == MagNum(v1)
        m2 == MagNum(v2)
    IN IF m1 = 0 \/ m2 = 0 THEN 0
       ELSE Max(0, Min(100, (dot * 100) \div (m1 * m2)))

\* SemanticDocumentManager._cosine_similarity, in hundredths: np.dot raises
\* on vectors of different lengths and the handler returns 0.0; otherwise
\* the cosine itself is returned
CosineSimilarity(v1, v2) ==
    IF Len(v1.c) # Len(v2.c) THEN 0
    ELSE LET dot == SumProd(v1.c, v2.c, Len(v1.c))
             m1 == MagNum(v1)
             m2 == MagNum(v2)
         IN IF m1 = 0 \/ m2 = 0 THEN 0
            ELSE (dot * 100) \div (m1 * m2)

\* lines 157-163 of search_similar: every document with an embedding is
\* scored, none is dropped
RECURSIVE ScoreAllFrom(_, _, _)
ScoreAllFrom(docs, i, query_embedding) ==
    IF i > Len(docs) THEN <<>>
    ELSE LET doc == docs[i]
             rest == ScoreAllFrom(docs, i + 1, query_embedding)
         IN IF doc.embedding = None THEN rest
            ELSE <<[id |-> i, has_content |-> doc.has_content,
                    similarity_score |->
                        CosineSimilarity(query_embedding, doc.embedding[1])]>>
                     \o rest

\* search_similar: embed_query raising, or no document, gives []; otherwise
\* the scored documents sorted by score, the first top_k of them
SearchSimilar(reply, top_k, docs) ==
    IF ~reply.ok \/ docs = <<>> THEN <<>>
    ELSE LET similarities ==
                 SortDescending(ScoreAllFrom(docs, 1, Vec(reply.vec, 1)))
             top_results == Take(similarities, top_k)
         IN [k \in 1..Len(top_results) |->
                [id |-> top_results[k].id,
                 score |-> top_results[k].similarity_score]]

SimVecs ==
    {Vec(c, 1) : c \in {<<>>, <<0>>, <<1>>, <<0, 0>>, <<1, 0>>, <<-1, 0>>,
                        <<3, 4>>, <<-3, 4>>}}

TopKs == {1, 3}

\* one call of one of the four in a behaviour
NothingCalled == sim.fn = "none" /\ ~ssim.called /\ ~sreq.called

CalculateCosineSimilarityCall ==
    /\ NothingCalled
    /\ \E v1 \in SimVecs, v2 \in SimVecs :
           sim' = [fn |-> "VectorSearchTool._calculate_cosine_similarity",
                   v1 |-> v1, v2 |-> v2,
                   value |-> CalculateCosineSimilarity(v1, v2)]
    /\ UNCHANGED <<corpus, retrievalVars, usage, provider_calls, ssim,
                   pf, bt, ui>>

CalculateSimilarityCall ==
    /\ NothingCalled
    /\ \E v1 \in SimVecs, v2 \in SimVecs :
           sim' = [fn |-> "EmbeddingTool.calculate_similarity",
                   v1 |-> v1, v2 |-> v2,
                   value |-> CalculateSimilarity(v1, v2)]
    /\ UNCHANGED <<corpus, retrievalVars, usage, provider_calls, ssim,
                   pf, bt, ui>>

CosineSimilarityCall ==
    /\ NothingCalled
    /\ \E v1 \in SimVecs, v2 \in SimVecs :
           sim' = [fn |-> "SemanticDocumentManager._cosine_similarity",
                   v1 |-> v1, v2 |-> v2,
                   value |-> CosineSimilarity(v1, v2)]
    /\ UNCHANGED <<corpus, retrievalVars, usage, provider_calls, ssim,
                   pf, bt, ui>>

SearchSimilarCall ==
    /\ NothingCalled
    /\ \E reply \in QueryReplies, top_k \in TopKs :
           ssim' = [called |-> TRUE, reply |-> reply, top_k |-> top_k,
                    results |-> SearchSimilar(reply, top_k, corpus)]
    /\ UNCHANGED <<corpus, retrievalVars, usage, provider_calls, sim,
                   pf, bt, ui>>

SimilarityInit ==
    /\ corpus \in KBCorpora
    /\ sreq = NoRequest
    /\ sres = SearchFailure("")
    /\ CascadeIdle
    /\ ChunkerIdle
    /\ EmbedderIdle
    /\ AppIdle

SimilarityNext ==
    \/ CalculateCosineSimilarityCall
    \/ CalculateSimilarityCall
    \/ CosineSimilarityCall
    \/ SearchSimilarCall
    \/ SimilaritySearchCall

SimilaritySpec == SimilarityInit /\ [][SimilarityNext]_vars

----------------------------------------------------------------------------
(* EmbeddingService.process_file_content and                               *)
(* EmbeddingTool.create_embeddings_batch                                   *)

\* What chunk_and_embed hands back to process_file_content: a failure, or a
\* success with the chunks that were embedded (at least one, lines 406-407).
ChunkResults ==
    {[success |-> FALSE, chunks |-> 0]}
        \cup {[success |-> TRUE, chunks |-> n] : n \in 1..MaxFileChunks}

\* lines 87-102: the embedding document of one chunk
EmbeddingDocument == [embedding |-> Some(Vec(<<3, 4>>, 5)), has_content |-> TRUE]

OthersIdle ==
    /\ pf.pc = "idle"
    /\ bt.pc = "idle"
    /\ pc = "idle"
    /\ ck.pc = "idle"
    /\ ce.pc = "idle"
    /\ emb.n = 0
    /\ NothingCalled

\* lines 49-81: up to the loop over the chunks; a failed chunk_and_embed is
\* reported at once
ProcessFileContentCall ==
    /\ OthersIdle
    /\ \E chunk_result \in ChunkResults :
           pf' = IF ~chunk_result.success
                 THEN [pf EXCEPT !.pc = "done", !.before = corpus]
                 ELSE [pf EXCEPT !.pc = "saving", !.before = corpus,
                                 !.chunks = chunk_result.chunks]
    /\ UNCHANGED <<corpus, retrievalVars, usage, provider_calls,
                   sim, ssim, bt, ui>>

\* lines 85-113 and 115-150: one iteration of the loop over the chunks
\* (insert_one stores the document or raises), and the return after the
\* last one.  The handler at lines 144-150 undoes nothing: a failed
\* insert_one leaves the documents inserted before it.
InsertChunk ==
    /\ pf.pc = "saving"
    /\ pf.k < pf.chunks
    /\ \E stored \in BOOLEAN :
           IF stored
           THEN /\ corpus' = Append(corpus, EmbeddingDocument)
                /\ pf' = [pf EXCEPT
                             !.k = @ + 1,
                             !.pc = IF pf.k + 1 = pf.chunks
                                    THEN "done" ELSE "saving",
                             !.success = (pf.k + 1 = pf.chunks)]
           ELSE /\ corpus' = corpus
                /\ pf' = [pf EXCEPT !.pc = "done", !.success = FALSE]
    /\ UNCHANGED <<retrievalVars, usage, provider_calls, sim, ssim, bt,
                   ui>>

\* A text of the batch is "" (empty after cleaning) or "t" (one token).
BatchTexts == UNION {[1..n -> {"", "t"}] : n \in 0..MaxBatchTexts}
BatchSizes == 1..MaxBatchTexts
BatchReplies == {"ok", "error"}

\* lines 279-288: an empty list fails at once
CreateEmbeddingsBatchCall ==
    /\ OthersIdle
    /\ \E texts \in BatchTexts, batch_size \in BatchSizes :
           bt' = IF texts = <<>>
                 THEN [bt EXCEPT !.pc = "done", !.batch_size = batch_size]
                 ELSE [bt EXCEPT !.pc = "batches", !.texts = texts,
                                 !.batch_size = batch_size]
    /\ UNCHANGED <<corpus, retrievalVars, usage, provider_calls,
                   sim, ssim, pf, ui>>

\* range(a, b) as a list
RECURSIVE PyRange(_, _)
PyRange(a, b) == IF a >= b THEN <<>> ELSE <<a>> \o PyRange(a + 1, b)

\* lines 298 and 312-322: the entries appended for the valid texts of the
\* batch that starts at index i
RECURSIVE BatchEntries(_, _, _)
BatchEntries(batch_texts, i, idx) ==
    IF idx >= Len(batch_texts) THEN <<>>
    ELSE (IF batch_texts[idx + 1] # ""
          THEN <<[index |-> i + idx, token_count |-> TenthsPerToken]>>
          ELSE <<>>)
             \o BatchEntries(batch_texts, i, idx + 1)

\* lines 291-329: one batch; lines 331-345: the counters and the result
\* after the last one
EmbedBatch ==
    /\ bt.pc = "batches"
    /\ bt.i < Len(bt.texts)
    /\ \E reply \in BatchReplies :
           LET batch_texts == PySlice(bt.texts, bt.i, bt.i + bt.batch_size)
               entries == BatchEntries(batch_texts, bt.i, 0)
               whole == PyRange(bt.i, bt.i + Len(batch_texts))
               b1 == IF entries = <<>> \/ reply = "error"
                     THEN [bt EXCEPT !.failed_indices = @ \o whole]
                     ELSE [bt EXCEPT
                              !.embeddings = @ \o entries,
                              !.total_tokens =
                                  @ + TenthsPerToken * Len(entries)]
               b2 == [b1 EXCEPT !.i = @ + bt.batch_size]
               last == b2.i >= Len(bt.texts)
           IN /\ (entries = <<>> => reply = "ok")
              /\ bt' = IF last
                       THEN [b2 EXCEPT !.pc = "done",
                                       !.success = Len(b2.embeddings) > 0]
                       ELSE b2
              /\ provider_calls' =
                     provider_calls + (IF entries = <<>> THEN 0 ELSE 1)
              /\ usage' =
                     IF ~last THEN usage
                     ELSE [total_tokens |->
                               usage.total_tokens + b2.total_tokens,
                           total_requests |->
                               usage.total_requests
                                   + Len(bt.texts) - Len(b2.failed_indices),
                           total_cost |-> usage.total_cost + b2.total_tokens]
    /\ UNCHANGED <<corpus, retrievalVars, sim, ssim, pf, ui>>

ServiceInit ==
    /\ corpus \in KBCorpora
    /\ sreq = NoRequest
    /\ sres = SearchFailure("")
    /\ CascadeIdle
    /\ ChunkerIdle
    /\ EmbedderIdle
    /\ AppIdle

ServiceNext ==
    \/ ProcessFileContentCall
    \/ InsertChunk
    \/ CreateEmbeddingsBatchCall
    \/ EmbedBatch

ServiceSpec == ServiceInit /\ [][ServiceNext]_vars

----------------------------------------------------------------------------
(* UIChat.py: sessions and the upload loop *)

SessionIds(sessions) == {sessions[i].sid : i \in 1..Len(sessions)}

SessionAt(sessions, sid) ==
    sessions[CHOOSE i \in 1..Len(sessions) : sessions[i].sid = sid]

\* del sessions[sid]
DelSession(sessions, sid) == SelectSeq(sessions, LAMBDA e : e.sid # sid)

\* lines 401-409: new_session on the state u
NewSessionNoFresh(u) ==
    IF /\ u.current_session \in SessionIds(u.sessions)
       /\ ~SessionAt(u.sessions, u.current_session).has_messages
    THEN u
    ELSE [u EXCEPT !.current_session = u.next_sid, !.next_sid = @ + 1]

NewSessionOn(u) ==
    IF /\ u.current_session \in SessionIds(u.sessions)
       /\ ~SessionAt(u.sessions, u.current_session).has_messages
    THEN u
    ELSE [u EXCEPT !.sessions = Append(@, [sid |-> u.next_sid, named |-> FALSE,
                                           has_messages |-> FALSE]),
                   !.current_session = u.next_sid,
                   !.next_sid = @ + 1]

\* lines 412-418: delete_session(sid) on the state u
DeleteSessionOn(u, sid) ==
    IF sid \notin SessionIds(u.sessions) THEN u
    ELSE LET u1 == [u EXCEPT !.sessions = DelSession(@, sid)]
         IN IF u1.sessions = <<>>
            THEN NewSessionOn(u1)
            ELSE [u1 EXCEPT !.current_session = u1.sessions[1].sid]

\* lines 431-433: the sessions shown in the sidebar
Listed(u) ==
    {sid \in SessionIds(u.sessions) :
        ~(sid = u.current_session /\ ~SessionAt(u.sessions, sid).named)}

\* `current` of line 449 gets messages, and a name if it has none
WithMessages(sessions, sid, names) ==
    [i \in 1..Len(sessions) |->
        IF sessions[i].sid = sid
        THEN [sessions[i] EXCEPT !.has_messages = TRUE,
                                 !.named = @ \/ names]
        ELSE sessions[i]]

\* line 427: the button "new session"
NewSession ==
    /\ ui.busy = 0
    /\ OthersIdle
    /\ ui.next_sid <= MaxSids
    /\ ui' = NewSessionOn(ui)
    /\ ui' # ui
    /\ UNCHANGED <<corpus, retrievalVars, usage, provider_calls,
                   sim, ssim, pf, bt>>

\* lines 438-440: the delete button of a listed session
DeleteSession ==
    /\ ui.busy = 0
    /\ OthersIdle
    /\ ui.next_sid <= MaxSids
    /\ \E sid \in Listed(ui) : ui' = DeleteSessionOn(ui, sid)
    /\ UNCHANGED <<corpus, retrievalVars, usage, provider_calls,
                   sim, ssim, pf, bt>>

\* lines 436-437: the open button of a listed session
SelectSession ==
    /\ ui.busy = 0
    /\ OthersIdle
    /\ \E sid \in Listed(ui) :
           /\ sid # ui.current_session
           /\ ui' = [ui EXCEPT !.current_session = sid]
    /\ UNCHANGED <<corpus, retrievalVars, usage, provider_calls,
                   sim, ssim, pf, bt>>

\* lines 563-576: a prompt typed into the chat input
ChatInput ==
    /\ ui.busy = 0
    /\ OthersIdle
    /\ LET sessions == WithMessages(ui.sessions, ui.current_session, TRUE)
       IN /\ sessions # ui.sessions
          /\ ui' = [ui EXCEPT !.sessions = sessions]
    /\ UNCHANGED <<corpus, retrievalVars, usage, provider_calls,
                   sim, ssim, pf, bt>>

\* lines 469-470 and 553-560: the buttons that show and hide the uploader
ToggleUploader ==
    /\ ui.busy = 0
    /\ OthersIdle
    /\ ui' = [ui EXCEPT !.show_uploader = ~@]
    /\ UNCHANGED <<corpus, retrievalVars, usage, provider_calls,
                   sim, ssim, pf, bt>>

\* line 484: the test that lets a file through to process_uploaded_file
ShouldProcessRetryingErrors(file_key, processing_files) ==
    processing_files[file_key] \in {"absent", "error"}

ShouldProcess(file_key, processing_files) ==
    processing_files[file_key] = "absent"

\* lines 481-489: the loop meets an uploaded file that passes the test, marks
\* it and calls process_uploaded_file (a file that does not pass is skipped
\* and nothing changes)
ProcessUploadedFileCall ==
    /\ ui.busy = 0
    /\ OthersIdle
    /\ ui.show_uploader
    /\ \E file_key \in Keys :
           /\ ShouldProcess(file_key, ui.processing_files)
           /\ ui' = [ui EXCEPT
                        !.processing_files[file_key] = "processing",
                        !.processed[file_key] = @ + 1,
                        !.busy = file_key]
    /\ UNCHANGED <<corpus, retrievalVars, usage, provider_calls,
                   sim, ssim, pf, bt>>

\* lines 491-544: process_uploaded_file returned (it catches every exception
\* and always returns a result)
ProcessUploadedFileReturn ==
    /\ ui.busy # 0
    /\ \E success \in BOOLEAN :
           ui' = [ui EXCEPT
                     !.processing_files[ui.busy] =
                         IF success THEN "completed" ELSE "error",
                     !.sessions =
                         WithMessages(@, ui.current_session, success),
                     !.busy = 0]
    /\ UNCHANGED <<corpus, retrievalVars, usage, provider_calls,
                   sim, ssim, pf, bt>>

UIInit ==
    /\ corpus = <<>>
    /\ sreq = NoRequest
    /\ sres = SearchFailure("")
    /\ CascadeIdle
    /\ ChunkerIdle
    /\ EmbedderIdle
    /\ AppIdle

UINext ==
    \/ NewSession
    \/ DeleteSession
    \/ SelectSession
    \/ ChatInput
    \/ ToggleUploader
    \/ ProcessUploadedFileCall
    \/ ProcessUploadedFileReturn

UISpec == UIInit /\ [][UINext]_vars

----------------------------------------------------------------------------
(* Properties of similarity_search *)

SearchReturned == sreq.called /\ sres.success

QueryEmbedding == CreateEmbedding(sreq.tokens, sreq.reply).embedding

ScoreOf(i) == CalculateCosineSimilarity(QueryEmbedding, corpus[i].embedding[1])

\* the documents the contract keeps under threshold t
Qualifying(t) ==
    {i \in 1..Len(corpus) : corpus[i].embedding # None /\ ScoreOf(i) >= t}

\* position of document i in the stable descending order of Qualifying(t)
RankIn(i, t) ==
    1 + Cardinality({j \in Qualifying(t) :
                        \/ ScoreOf(j) > ScoreOf(i)
                        \/ ScoreOf(j) = ScoreOf(i) /\ j < i})

ResultIds == [p \in 1..Len(sres.results) |-> sres.results[p].id]

\* the first k documents of the stable descending order of Qualifying(t)
TopK(t, k) ==
    [p \in 1..Min(k, Cardinality(Qualifying(t))) |->
        CHOOSE i \in Qualifying(t) : RankIn(i, t) = p]

\* C1: when the caller passes a threshold t and a limit k, the result list is
\* the first k documents of the stable descending-by-score order of exactly
\* the documents that have an embedding and score >= t.
C1_ThresholdThenTopK ==
    (SearchReturned /\ sreq.limit # None /\ sreq.similarity_threshold # None)
        => /\ ResultIds = TopK(sreq.similarity_threshold[1], sreq.limit[1])
           /\ \A p \in 1..Len(sres.results) :
                  sres.results[p].similarity_score = ScoreOf(sres.results[p].id)

\* C2: every returned document scores at least the threshold the caller
\* supplied.
C2_ResultsAtLeastThreshold ==
    (SearchReturned /\ sreq.similarity_threshold # None)
        => \A p \in 1..Len(sres.results) :
               sres.results[p].similarity_score >= sreq.similarity_threshold[1]

\* C2 witness: a search with a supplied non-zero threshold returned a document
\* while another embedded document of the corpus scored below the threshold.
C2_Witness ==
    /\ SearchReturned
    /\ sreq.similarity_threshold = Some(80)
    /\ Len(sres.results) >= 1
    /\ \E i \in 1..Len(corpus) :
           corpus[i].embedding # None /\ ScoreOf(i) < 80 /\ ScoreOf(i) > 0

\* C3: the result list is in descending score order, and results of equal
\* score keep the order in which the cursor returned them.
C3_SortedStable ==
    SearchReturned
        => \A p, q \in 1..Len(sres.results) :
               p < q =>
                   /\ sres.results[p].similarity_score
                          >= sres.results[q].similarity_score
                   /\ (sres.results[p].similarity_score
                           = sres.results[q].similarity_score
                       => sres.results[p].id < sres.results[q].id)

\* C3 witness: three results, the cursor's first document ranked below a
\* later one, and two results tied on score.
C3_Witness ==
    /\ SearchReturned
    /\ Len(sres.results) = 3
    /\ sres.results[1].id > 1
    /\ \E p, q \in 1..3 :
           /\ p < q
           /\ sres.results[p].similarity_score = sres.results[q].similarity_score

\* C4: for every non-negative limit the caller supplies, at most `limit`
\* results are returned.
C4_AtMostLimit ==
    (SearchReturned /\ sreq.limit # None)
        => Len(sres.results) <= sreq.limit[1]

----------------------------------------------------------------------------
(* Properties of the cascade *)

StageOrder == <<"KNOWLEDGE_BASE", "WEB_SEARCH", "LLM_FALLBACK">>

Entered(stage) == \E i \in 1..Len(stages) : stages[i] = stage

KBResults == kb[1].kb_results.results

\* the knowledge-base result set is non-empty and its best score is >= 0.7
KBAccepted ==
    /\ kb[1].kb_results.success
    /\ KBResults # <<>>
    /\ MaxScore(KBResults, Len(KBResults)) >= kb_acceptance

TerminatedWithKB ==
    /\ pc = "done"
    /\ response # None
    /\ response[1].source = "kb"
    /\ response[1].results = KBResults

WentFromKBToWeb ==
    pc = "web" \/ (Len(stages) >= 2 /\ stages[2] = "WEB_SEARCH")

\* C5: the KNOWLEDGE_BASE stage ends the cascade with the knowledge-base
\* results exactly when the result set is non-empty with best score >= 0.7,
\* and otherwise goes on to WEB_SEARCH, whatever the keyword overlap.
C5_KBAcceptance ==
    kb # None
        => /\ TerminatedWithKB <=> KBAccepted
           /\ ~KBAccepted => WentFromKBToWeb

WebNoResults == web[1].search_outcome = "none"

WentFromWebToLLM ==
    pc = "llm" \/ (llm # None /\ ~llm[1].from_handler)

TerminatedWithWeb ==
    /\ pc = "done"
    /\ llm = None
    /\ response # None
    /\ response[1].source = "web"
    /\ response[1].results = <<>>

\* C6 as stated: after WEB_SEARCH the cascade goes to LLM_FALLBACK exactly
\* when there are no web results or the quality score is below 6, and
\* otherwise ends with the web results.
C6_WebByScoreOnly ==
    web # None
        => IF WebNoResults \/ web[1].evaluation.quality_score < web_quality_min
           THEN WentFromWebToLLM
           ELSE TerminatedWithWeb

\* C6 as amended: after WEB_SEARCH the cascade goes to LLM_FALLBACK exactly
\* when there are no web results, or the evaluator does not recommend
\* "use_search", or the quality score is below 6, or the evaluation has no
\* summary to format (the stage raises); otherwise it ends with the web
\* results and the knowledge-base results are discarded.
C6_WebByRecommendationAndScore ==
    web # None
        => IF \/ WebNoResults
              \/ web[1].evaluation.recommendation # "use_search"
              \/ web[1].evaluation.quality_score < web_quality_min
              \/ ~web[1].evaluation.has_summary
           THEN WentFromWebToLLM
           ELSE TerminatedWithWeb

\* C6 witness: the knowledge base found documents scoring below 0.7, the web
\* search was rated 8 with "use_search", and the web results were returned.
C6_Witness ==
    /\ kb # None /\ web # None
    /\ KBResults # <<>>
    /\ ~KBAccepted
    /\ web[1].evaluation.quality_score = 8
    /\ web[1].evaluation.recommendation = "use_search"
    /\ TerminatedWithWeb

\* C7: stages are entered only in the order KNOWLEDGE_BASE, WEB_SEARCH,
\* LLM_FALLBACK: LLM_FALLBACK is never entered without WEB_SEARCH before it.
C7_StagesInOrder ==
    \A i \in 1..Len(stages) : i <= 3 /\ stages[i] = StageOrder[i]

LLMFailed == llm # None /\ ~llm[1].ok

\* C8: every invocation runs to its return with a response; after
\* LLM_FALLBACK no further stage is entered; when the LLM call fails the
\* response carries the apology.
C8_AlwaysAnswers ==
    /\ <>[](pc = "done" /\ response # None)
    /\ [][Entered("LLM_FALLBACK") => stages' = stages]_vars
    /\ [](LLMFailed => (pc = "done" /\ response # None /\ response[1].apology))

\* C8 witness: a run returned after the LLM call of LLM_FALLBACK failed.
C8_Witness ==
    /\ pc = "done"
    /\ LLMFailed
    /\ Entered("WEB_SEARCH")
    /\ response[1].apology

ReportsError(r) == r.error_prefix \/ r.error_in_results \/ r.apology

\* C9: the response contains an error report only when the LLM fallback
\* failed; a failure of KNOWLEDGE_BASE or WEB_SEARCH never shows in it.
C9_ErrorOnlyFromLLM ==
    (pc = "done" /\ response # None)
        => /\ ReportsError(response[1]) => LLMFailed
           /\ ~response[1].error_prefix
           /\ ~response[1].error_in_results

----------------------------------------------------------------------------
(* Properties of the chunker *)

TokenPath == ck.tokenizer = "ok" /\ ck.pc \in {"tokens", "done"}

\* chunk is the text of at most m consecutive tokens of the encoded text
IsTokenSlice(chunk, tokens, m) ==
    \E a \in 0..Len(tokens), b \in 0..Len(tokens) :
        /\ a <= b
        /\ b - a <= m
        /\ chunk = Decode(SubSeq(tokens, a + 1, b))

\* C10: with max_tokens M > overlap O >= 0, every chunk the token-window
\* chunker produces is the text of at most M consecutive tokens of T.
C10_ChunkAtMostMaxTokens ==
    TokenPath
        => \A k \in 1..Len(ck.chunks) :
               IsTokenSlice(ck.chunks[k], ck.tokens, ck.max_tokens)

\* C10 witness: a text longer than one window was cut into windows with an
\* overlap, and the first chunk is a full window of M tokens.
C10_Witness ==
    /\ TokenPath
    /\ ck.pc = "done"
    /\ ck.overlap_tokens > 0
    /\ Len(ck.tokens) > ck.max_tokens
    /\ Len(ck.chunks) >= 2
    /\ ck.chunks[1] = Decode(SubSeq(ck.tokens, 1, ck.max_tokens))

TokenChunkerReturned == TokenPath /\ ck.pc = "done"

\* the token positions (counted from 0) that chunk k was decoded from
Positions(k) == {p \in 0..(Len(ck.tokens) - 1) :
                    ck.windows[k][1] <= p /\ p < ck.windows[k][2]}

\* chunk k without the tokens it repeats from the chunks before it
FreshTokens(k) ==
    LET toks == Encode(ck.chunks[k])
        seen == IF k = 1 THEN 0 ELSE ck.windows[k - 1][2] - ck.windows[k][1]
    IN SubSeq(toks, Min(seen, Len(toks)) + 1, Len(toks))

RECURSIVE Reassemble(_)
Reassemble(k) ==
    IF k = 0 THEN <<>> ELSE Reassemble(k - 1) \o Decode(FreshTokens(k))

\* C11: the token ranges of the chunks, taken in order, leave no gap: the
\* first starts at token 0, each next one starts no later than where the one
\* before it ended, every token position of T is in some chunk, and the
\* chunks with the overlap removed give back T.
C11_NoGap ==
    TokenChunkerReturned
        => /\ ck.windows[1][1] = 0
           /\ \A k \in 1..(Len(ck.windows) - 1) :
                  ck.windows[k + 1][1] <= ck.windows[k][2]
           /\ \A p \in 0..(Len(ck.tokens) - 1) :
                  \E k \in 1..Len(ck.windows) : p \in Positions(k)
           /\ Reassemble(Len(ck.chunks)) = ck.text

\* C11 witness: a text of more tokens than one window holds was cut into
\* windows that overlap.
C11_Witness ==
    /\ TokenChunkerReturned
    /\ Len(ck.tokens) > ck.max_tokens
    /\ ck.overlap_tokens > 0
    /\ Len(ck.chunks) >= 3

CeilDiv(a, b) == (a + b - 1) \div b

\* C12: a document of N tokens with N > M > O >= 0 yields exactly
\* ceil((N - O) / (M - O)) chunks.
C12_ChunkCount ==
    (TokenChunkerReturned /\ Len(ck.tokens) > ck.max_tokens)
        => Len(ck.chunks) =
               CeilDiv(Len(ck.tokens) - ck.overlap_tokens,
                       ck.max_tokens - ck.overlap_tokens)

\* C13: any two consecutive chunks share exactly overlap_tokens tokens, the
\* last O tokens of the first being the first O tokens of the second.
C13_FixedOverlap ==
    TokenPath
        => \A k \in 1..(Len(ck.windows) - 1) :
               /\ Cardinality(Positions(k) \cap Positions(k + 1))
                      = ck.overlap_tokens
               /\ ck.windows[k + 1][1] = ck.windows[k][2] - ck.overlap_tokens

----------------------------------------------------------------------------
(* Properties of create_embedding and chunk_and_embed *)

ChunkAndEmbedReturned == ce.pc = "done" /\ ce.error = ""

\* C14: the chunks chunk_and_embed returns are in non-decreasing
\* start_position order: for returned chunks with chunk_index i < j the
\* recorded start_position of i is <= that of j.
C14_StartPositionsOrdered ==
    ChunkAndEmbedReturned
        => \A a \in 1..Len(ce.chunk_embeddings),
              b \in 1..Len(ce.chunk_embeddings) :
               ce.chunk_embeddings[a].chunk_index
                       < ce.chunk_embeddings[b].chunk_index
                   => ce.chunk_embeddings[a].start_position
                          <= ce.chunk_embeddings[b].start_position

\* C15: if embedding any chunk fails during chunk_and_embed, the call
\* reports failure to its caller rather than success with that chunk omitted.
C15_ChunkFailureSurfaced ==
    (ce.pc = "done" /\ ce.failed # {}) => ~ce.success

DirectCallStep == emb'.n = emb.n + 1

\* C16: create_embedding rejects a text over the model's token ceiling with
\* a failure result before any call to the provider, and leaves the usage
\* counters (total_tokens, total_requests, total_cost) unchanged.
C16_OverCeilingRejected ==
    [][(DirectCallStep /\ emb'.tokens > model_max_tokens)
           => /\ ~emb'.result.success
              /\ emb'.result.error = "text_too_long"
              /\ provider_calls' = provider_calls
              /\ usage' = usage]_vars

\* C16 witness: a text over the ceiling was rejected by a tool whose counters
\* had already moved.
C16_Witness ==
    /\ emb.n = 2
    /\ emb.tokens > model_max_tokens
    /\ ~emb.result.success
    /\ usage.total_requests = 1
    /\ provider_calls = 1

\* C17: the provider is called at most once per create_embedding call, at
\* most once per chunk in chunk_and_embed and at most once per
\* similarity_search call, also when that call fails.
C17_NoRetry ==
    /\ [][provider_calls' <= provider_calls + 1]_vars
    /\ [](/\ Len(ce.calls) = ce.i
          /\ Len(ce.calls) <= Len(ck.chunks)
          /\ \A k \in 1..Len(ce.calls) : ce.calls[k] <= 1)
    /\ [](provider_calls <= emb.n + ce.i + (IF sreq.called THEN 1 ELSE 0))

\* C17 witness: chunk_and_embed went through several chunks, one of which
\* the provider refused, with one provider call for each.
C17_Witness ==
    /\ ce.pc = "done"
    /\ ce.failed # {}
    /\ Len(ce.calls) >= 2
    /\ provider_calls = Len(ce.calls)

QueryEmbeddable == CreateEmbedding(sreq.tokens, sreq.reply).success

\* C18: if the query cannot be embedded (empty after cleaning, over the
\* ceiling, or provider error), similarity_search returns a failure carrying
\* the error, with no result list, and without reading the corpus.
C18_QueryNotEmbeddedFails ==
    (sreq.called /\ ~QueryEmbeddable)
        => /\ ~sres.success
           /\ sres.error = "query_embedding"
           /\ ~sres.has_results
           /\ ~sres.corpus_read

\* C18 witness: the provider refused the query of a search over a corpus
\* that holds a document.
C18_Witness ==
    /\ sreq.called
    /\ sreq.tokens = 5
    /\ ~sreq.reply.ok
    /\ sreq.db_up
    /\ Len(corpus) > 0
    /\ sres.error = "query_embedding"

\* no stored embedding scores at least the threshold in force
NoCandidateReaches ==
    \A i \in 1..Len(corpus) :
        corpus[i].embedding # None
            => ScoreOf(i) < OrDefault(sreq.similarity_threshold,
                                      min_similarity_threshold)

EmptyOutcome == sres.success /\ sres.has_results /\ sres.results = <<>>

\* C19 as stated: when the corpus is empty or no candidate reaches the
\* threshold, similarity_search returns a successful outcome with an empty
\* result list, never an error.
C19_EmptyNeverError ==
    (sreq.called /\ (corpus = <<>> \/ (QueryEmbeddable /\ NoCandidateReaches)))
        => EmptyOutcome

\* C19, amended: when the query can be embedded and the collection can be
\* read, an empty corpus, or one in which no candidate reaches the
\* threshold, gives a successful outcome with an empty result list.
C19_EmptyWhenSearchable ==
    (/\ sreq.called
     /\ QueryEmbeddable
     /\ sreq.db_up
     /\ (corpus = <<>> \/ NoCandidateReaches))
        => EmptyOutcome

\* C19 witness: a search over stored embeddings none of which reaches the
\* threshold returned successfully with nothing.
C19_Witness ==
    /\ sreq.called
    /\ QueryEmbeddable
    /\ sreq.db_up
    /\ \E i \in 1..Len(corpus) : corpus[i].embedding # None
    /\ NoCandidateReaches
    /\ EmptyOutcome

\* C20: similarity_search never mutates persisted documents: the collection
\* is the same before and after any call, whether it succeeds, returns no
\* results, or fails.
C20_SearchReadsOnly == [][corpus' = corpus]_vars

\* C20 witness: a search that scanned a corpus of several documents and
\* returned some of them.
C20_Witness ==
    /\ sreq.called
    /\ sres.corpus_read
    /\ Len(corpus) >= 2
    /\ Len(sres.results) >= 1
    /\ Len(sres.results) < Len(corpus)

----------------------------------------------------------------------------
(* Properties of the similarity functions *)

\* C21: every similarity score attached to a search result lies in [0, 1]:
\* the similarity_score of VectorSearchTool.similarity_search and the score
\* of SemanticDocumentManager.search_similar.
C21_ScoresInUnitInterval ==
    /\ \A k \in 1..Len(sres.results) :
           sres.results[k].similarity_score \in 0..100
    /\ \A k \in 1..Len(ssim.results) : ssim.results[k].score \in 0..100

ZeroMagnitude(v) == \A i \in 1..Len(v.c) : v.c[i] = 0

\* C22: each similarity function returns exactly 0.0, without raising,
\* whenever either argument vector has zero magnitude.
C22_ZeroMagnitudeGivesZero ==
    (sim.fn # "none" /\ (ZeroMagnitude(sim.v1) \/ ZeroMagnitude(sim.v2)))
        => sim.value = 0

\* C22 witness: _calculate_cosine_similarity was applied to a non-zero
\* vector and a zero vector of the same length and returned 0.
C22_Witness ==
    /\ sim.fn = "VectorSearchTool._calculate_cosine_similarity"
    /\ sim.v1 = Vec(<<3, 4>>, 1)
    /\ sim.v2 = Vec(<<0, 0>>, 1)
    /\ sim.value = 0

----------------------------------------------------------------------------
(* Properties of process_file_content and create_embeddings_batch *)

\* C23: whenever process_file_content returns failure (a store error while
\* inserting the k-th chunk included), no embedding document inserted by
\* that call remains in document_embeddings.
C23_AllOrNothing ==
    (pf.pc = "done" /\ ~pf.success) => corpus = pf.before

IndexCount(idx) ==
    Cardinality({k \in 1..Len(bt.embeddings) : bt.embeddings[k].index = idx})

FailedCount(idx) ==
    Cardinality({k \in 1..Len(bt.failed_indices) : bt.failed_indices[k] = idx})

\* C27: each index 0..len(texts)-1 is either the index of exactly one entry
\* of embeddings or a member of failed_indices, never both and never
\* neither, so total_processed + total_failed = len(texts).
C27_EveryIndexOnce ==
    (bt.pc = "done" /\ bt.texts # <<>>)
        => /\ \A idx \in 0..(Len(bt.texts) - 1) :
                  \/ IndexCount(idx) = 1 /\ FailedCount(idx) = 0
                  \/ IndexCount(idx) = 0 /\ FailedCount(idx) >= 1
           /\ Len(bt.embeddings) + Len(bt.failed_indices) = Len(bt.texts)

----------------------------------------------------------------------------
(* Termination and window size of the chunkers *)

CharPath == ck.tokenizer # "ok" /\ ck.pc \in {"chars", "done"}

\* C24: every iteration of the character window loop strictly increases
\* start, whatever the position of the punctuation in the window.
C24_CharStartIncreases ==
    [][(ck.pc = "chars" /\ ck'.pc \in {"chars", "done"})
           => ck'.start > ck.start]_vars

\* C25: every iteration of the token window loop moves start forward by
\* exactly max_tokens - overlap_tokens > 0, and the loop ends with a finite
\* list of chunks.
C25_TokenChunkerTerminates ==
    /\ [][(ck.pc = "tokens" /\ ck' # ck)
              => /\ ck'.start = ck.start + ck.max_tokens - ck.overlap_tokens
                 /\ ck'.start > ck.start
                 /\ Len(ck'.chunks) = Len(ck.chunks) + 1]_vars
    /\ (ck.pc = "tokens") ~> (ck.pc = "done" /\ ck.start >= Len(ck.tokens))

\* C25 witness: the loop ran for three windows and returned.
C25_Witness ==
    /\ TokenPath
    /\ ck.pc = "done"
    /\ Len(ck.windows) = 3
    /\ ck.start >= Len(ck.tokens)

\* C26: every window text[start:end] of the character fallback spans at
\* most max_chars characters and is cut, if at all, within its last
\* overlap_chars characters.
C26_CharWindowAtMostMaxChars ==
    CharPath
        => \A k \in 1..Len(ck.windows) :
               LET start == ck.windows[k][1]
                   end == ck.windows[k][2]
               IN /\ Len(PySlice(ck.text, start, end)) <= ck.max_chars
                  /\ end <= start + ck.max_chars
                  /\ end >= start + ck.max_chars - ck.overlap_chars

----------------------------------------------------------------------------
(* Properties of the chat UI *)

\* C28: process_uploaded_file is called at most once per file key, and the
\* status of a key only moves from "processing" to "completed" or "error"
\* and stays there, so a file that ended in "error" is not retried.
C28_ProcessedOncePerKey ==
    /\ [](\A k \in Keys :
              /\ ui.processed[k] <= 1
              /\ (ui.processed[k] = 0) = (ui.processing_files[k] = "absent"))
    /\ [][\A k \in Keys :
              LET old == ui.processing_files[k]
                  new == ui'.processing_files[k]
              IN \/ new = old /\ ui'.processed[k] = ui.processed[k]
                 \/ old = "absent" /\ new = "processing"
                 \/ old = "processing" /\ new \in {"completed", "error"}]_vars

\* C28 witness: one file ended in "error", another was handled after it, and
\* the first was called once.
C28_Witness ==
    /\ ui.processing_files[1] = "error"
    /\ ui.processing_files[2] = "completed"
    /\ ui.processed[1] = 1
    /\ ui.busy = 0

\* C29: the session map is never empty and current_session is one of its
\* keys.
C29_CurrentSessionExists ==
    /\ ui.sessions # <<>>
    /\ ui.current_session \in SessionIds(ui.sessions)

\* C29 witness: the only session left was deleted and a new one took its
\* place.
C29_Witness ==
    /\ Len(ui.sessions) = 1
    /\ ui.sessions[1].sid > 1
    /\ ui.current_session = ui.sessions[1].sid
    /\ ui.next_sid = ui.current_session + 1
    /\ ~ui.sessions[1].has_messages

\* C30: deleting a session other than the current one removes that session
\* only and leaves current_session as it was.
C30_DeleteOtherKeepsCurrent ==
    [][\A sid \in SessionIds(ui.sessions) :
           (sid # ui.current_session /\ sid \notin SessionIds(ui'.sessions))
               => /\ ui'.sessions = DelSession(ui.sessions, sid)
                  /\ ui'.current_session = ui.current_session]_vars

====
